---- MODULE Spec2Model ----
(***************************************************************************)
(* Model of bolsao.py (Gestor do Bolsão): the pricing functions            *)
(* (calcula_bolsa, precos_2026, calcula_valor_minimo), the letter form     *)
(* (aba_carta) with the generation of a letter, the negotiation simulator  *)
(* (aba_negociacao), the batched spreadsheet writer (batch_update_cells),  *)
(* the follow-up form with its cached snapshot of the sheet                *)
(* 'Resultados_Bolsao' (aba_formulario), and the two ways of finding the   *)
(* row of an identifier (find_row_by_id, the snapshot's index).            *)
(*                                                                         *)
(* Units.  A discount fraction is held as an integer percentage (0.30 is   *)
(* 30): every fraction the program produces is a whole percentage.  Money  *)
(* is held in centavos (2820.77 is 282077).  A discounted value            *)
(* x * (1 - pct) is held in hundredths of a centavo, x * (100 - pct), so   *)
(* that it stays an integer.  A discount ceiling is held per ten thousand  *)
(* (0.6320 is 6320), and the minimum negotiable installment,               *)
(* anuidade * (1 - ceiling) / 12, in 1/120000 of a centavo,                *)
(* anuidade * (10000 - ceiling), so that the division by 12 is exact; such *)
(* a product is held in two parts, thousands and rest, to stay within the  *)
(* integers the checker computes with.                                     *)
(*                                                                         *)
(* Text whose characters matter (sheet titles, A1 ranges) is a sequence of *)
(* tokens, one per character; a cell reference is a single token.          *)
(***************************************************************************)
EXTENDS Integers, Sequences, FiniteSets, TLC

VARIABLES
    \* ---- calcula_bolsa called on drawn inputs
    acertos,          \* argument acertos
    serie_bolsa,      \* argument serie_modalidade
    pct_bolsa,        \* value returned, NaoChamado before the call
    prev_bolsa,       \* the previous call on the same program: [acertos, pct]
    \* ---- precos_2026 called on drawn inputs
    serie_precos,     \* argument serie_modalidade
    parcela13_in,     \* a base installment fed to the formula chain
    precos_out,       \* value returned by precos_2026
    chain_out,        \* value returned by the formula chain on parcela13_in
    precos_calls,     \* number of calls made so far
    \* ---- the letter form (aba_carta): session state and the values of a run
    c_turma,          \* st.session_state.c_turma
    c_serie,          \* st.session_state.c_serie
    c_mat,            \* st.session_state.c_mat
    c_port,           \* st.session_state.c_port
    candidato,        \* 'Turma de Interesse - Geral' of the loaded candidate
    total,            \* ac_mat + ac_port
    pct,              \* calcula_bolsa(total, c_serie)
    precos,           \* precos_2026(c_serie)
    val_ano,          \* precos["anuidade"] * (1 - pct)
    val_parcela_mensal,
    val_primeira_cota,
    \* ---- batch_update_cells called on drawn inputs
    ws_title,         \* ws.title
    updates_in,       \* argument updates of the last call
    requests,         \* bodies passed to ws.spreadsheet.values_batch_update
    batch_calls,      \* number of calls made so far
    \* ---- calcula_valor_minimo called on drawn inputs
    min_unid,         \* argument unidade
    min_serie,        \* argument serie_modalidade
    min_out,          \* value returned, before the call not chamado
    \* ---- the negotiation simulator (aba_negociacao)
    n_unid,           \* selectbox 'Unidade'
    n_serie,          \* selectbox 'Série / Modalidade'
    modo_sim,         \* radio 'Calcular por:'
    bolsa_sim,        \* slider 'Porcentagem de Bolsa'
    valor_neg,        \* number_input 'Valor desejado da parcela (R$)'
    valor_minimo,     \* calcula_valor_minimo(n_unid, n_serie)
    valor_resultante, \* parcela_mensal * (1 - bolsa_sim / 100)
    aviso,            \* the below-minimum st.error of the run
    \* ---- the sheet 'Resultados_Bolsao' and the follow-up form
    header,           \* row 1 of the sheet, as somebody set it up
    client_ok,        \* get_gspread_client returned a client, not None
    ws_cached,        \* lru_cache of get_ws and header_map holds 'Resultados_Bolsao'
    sheet,            \* the rows below the header, each a sequence of cells
    cache,            \* st.cache_data entry of load_resultados_snapshot
    selecao,          \* REGISTRO_ID picked in 'Selecione o Registro do Bolsão', per session
    gerados,          \* identifiers handed out by new_uuid
    externos,         \* edits made to the sheet outside the application
    escrito,          \* the last 'Salvar Formulário' that wrote: what and where
    ui,               \* what the last run showed: messages, download, exception
    \* ---- find_row_by_id and the snapshot's index on a drawn sheet
    target_id,        \* the identifier looked up
    find_out,         \* value returned by find_row_by_id, 0 for None
    index_out         \* snapshot["id_to_rownum"].get(target_id), 0 for None

calcVars == <<acertos, serie_bolsa, pct_bolsa, prev_bolsa>>
precosVars == <<serie_precos, parcela13_in, precos_out, chain_out, precos_calls>>
cartaVars == <<c_turma, c_serie, c_mat, c_port, candidato, total, pct, precos,
               val_ano, val_parcela_mensal, val_primeira_cota>>

batchVars == <<ws_title, updates_in, requests, batch_calls>>

minVars == <<min_unid, min_serie, min_out>>

negVars == <<n_unid, n_serie, modo_sim, bolsa_sim, valor_neg, valor_minimo,
             valor_resultante, aviso>>

storeVars == <<header, client_ok, ws_cached, sheet, cache, selecao, gerados, externos,
               escrito, ui>>

buscaVars == <<target_id, find_out, index_out>>

vars == <<calcVars, precosVars, cartaVars, batchVars, minVars, negVars, storeVars,
          buscaVars>>

\* what the actions of one part leave alone
naoBolsa == <<precosVars, cartaVars, batchVars, minVars, negVars, storeVars, buscaVars>>
naoPrecos == <<calcVars, cartaVars, batchVars, minVars, negVars, storeVars, buscaVars>>
naoCarta == <<calcVars, precosVars, batchVars, minVars, negVars, storeVars, buscaVars>>
naoBatch == <<calcVars, precosVars, cartaVars, minVars, negVars, storeVars, buscaVars>>
naoMin == <<calcVars, precosVars, cartaVars, batchVars, negVars, storeVars, buscaVars>>
naoNeg == <<calcVars, precosVars, cartaVars, batchVars, minVars, storeVars, buscaVars>>
naoStore == <<calcVars, precosVars, cartaVars, batchVars, minVars, negVars, buscaVars>>

(***************************************************************************)
(* Bounds of the model.                                                    *)
(***************************************************************************)
MaxAbaixo == 3     \* totals down to -MaxAbaixo
MaxAcima == 3      \* totals up to 24 + MaxAcima
MaxPrecosCalls == 3
MaxTitleLen == 2   \* characters of a sheet title
MaxUpdates == 2    \* updates in one call of batch_update_cells
MaxBatchCalls == 1
MaxRegistros == 2  \* letters generated, each appending one row
MaxExternos == 1   \* rows removed from the sheet outside the application
MaxLinhas == 3     \* rows of a drawn sheet

(***************************************************************************)
(* Reference data.                                                         *)
(***************************************************************************)
EF1 == "1º ao 5º Ano"

\* None, as a program name
NoneSerie == "<None>"

\* a program name that is in no table
SerieDesconhecida == "Turma Inexistente"

\* the table with the entry of 12 mistyped as .05
BOLSA_MAP_digitado ==
    [t \in 0..24 |->
        CASE t \in 0..2 -> 30
          [] t = 3 -> 35
          [] t \in 4..5 -> 40
          [] t = 6 -> 44
          [] t = 12 -> 5
          [] t \in 7..19 -> 38 + t
          [] t = 20 -> 60
          [] t = 21 -> 65
          [] t = 22 -> 70
          [] t = 23 -> 80
          [] t = 24 -> 100]

BOLSA_MAP ==
    [t \in 0..24 |->
        CASE t \in 0..2 -> 30
          [] t = 3 -> 35
          [] t \in 4..5 -> 40
          [] t = 6 -> 44
          [] t \in 7..19 -> 38 + t
          [] t = 20 -> 60
          [] t = 21 -> 65
          [] t = 22 -> 70
          [] t = 23 -> 80
          [] t = 24 -> 100]

TUITION ==
    [s \in {"1ª e 2ª Série EM Militar", "1ª e 2ª Série EM Vestibular", "1º ao 5º Ano",
            "3ª Série (PV/PM)", "3ª Série EM Medicina", "6º ao 8º Ano",
            "9º Ano EF II Militar", "9º Ano EF II Vestibular", "AFA/EN/EFOMM",
            "CN/EPCAr", "ESA", "EsPCEx", "IME/ITA", "Medicina (Pré)", "Pré-Vestibular"} |->
        CASE s \in {"1ª e 2ª Série EM Militar", "1ª e 2ª Série EM Vestibular"} ->
                [anuidade |-> 3667000, parcela13 |-> 282077]
          [] s = "1º ao 5º Ano" -> [anuidade |-> 2665400, parcela13 |-> 205031]
          [] s \in {"3ª Série (PV/PM)", "3ª Série EM Medicina"} ->
                [anuidade |-> 3681200, parcela13 |-> 283169]
          [] s = "6º ao 8º Ano" -> [anuidade |-> 3135400, parcela13 |-> 241185]
          [] s \in {"9º Ano EF II Militar", "9º Ano EF II Vestibular"} ->
                [anuidade |-> 3414600, parcela13 |-> 262662]
          [] s = "CN/EPCAr" -> [anuidade |-> 886300, parcela13 |-> 68177]
          [] s = "ESA" -> [anuidade |-> 714500, parcela13 |-> 54962]
          [] OTHER -> [anuidade |-> 1480200, parcela13 |-> 113862]]

(***************************************************************************)
(* Pricing functions.                                                      *)
(***************************************************************************)
Max(a, b) == IF a >= b THEN a ELSE b
Min(a, b) == IF a <= b THEN a ELSE b

\* max(0, min(acertos, hi)) without the lower clamp: a plausible slip
ClampSemPiso(x, hi) == Min(x, hi)

\* max(0, min(acertos, hi))
Clamp(x, hi) == Max(0, Min(x, hi))

\* the step function of the special program with its tier boundaries
\* shifted by one: 3 and 8 correct answers land in the tier above
calcula_bolsa_degraus(a, serie) ==
    IF serie = EF1
    THEN LET c == Clamp(a, 10) IN
         CASE c = 0 -> 0
           [] c \in 1..2 -> 30
           [] c \in 3..5 -> 50
           [] c \in 6..7 -> 60
           [] OTHER -> 65
    ELSE LET ac == Clamp(a, 24) IN
         IF ac \in DOMAIN BOLSA_MAP THEN BOLSA_MAP[ac] ELSE 30

calcula_bolsa(a, serie) ==
    IF serie = EF1
    THEN LET c == Clamp(a, 10) IN
         CASE c = 0 -> 0
           [] c \in 1..3 -> 30
           [] c \in 4..5 -> 50
           [] c \in 6..8 -> 60
           [] OTHER -> 65
    ELSE LET ac == Clamp(a, 24) IN
         IF ac \in DOMAIN BOLSA_MAP THEN BOLSA_MAP[ac] ELSE 30

\* round(n / d) to the nearest integer, a tie going to the even neighbour.
\* Python rounds the binary float; the two differ only on exact ties, which
\* none of the values below produces (n * 10 / 11 is never a tie, and
\* c * 1.093 ties only for c = 500 modulo 1000 centavos).
RoundDiv(n, d) ==
    LET q == n \div d
        r == n % d
    IN IF 2 * r > d \/ (2 * r = d /\ q % 2 = 1) THEN q + 1 ELSE q

PrecoZero == [primeira_cota |-> 0, parcela_mensal |-> 0, anuidade |-> 0]

\* the chain with the two markups swapped
precos_de_parcela13_trocada(p) ==
    IF p <= 0 THEN PrecoZero
    ELSE LET parcela_2025 == RoundDiv(p * 1000, 1093)
             parcela_mensal == RoundDiv(parcela_2025 * 11, 10)
         IN [primeira_cota |-> parcela_2025,
             parcela_mensal |-> parcela_mensal,
             anuidade |-> parcela_2025 + 12 * parcela_mensal]

\* precos_2026 from the base installment on: lines 230-235
precos_de_parcela13(p) ==
    IF p <= 0 THEN PrecoZero
    ELSE LET parcela_2025 == RoundDiv(p * 10, 11)
             parcela_mensal == RoundDiv(parcela_2025 * 1093, 1000)
         IN [primeira_cota |-> parcela_2025,
             parcela_mensal |-> parcela_mensal,
             anuidade |-> parcela_2025 + 12 * parcela_mensal]

\* a lookup that prices an unknown program like the default class
precos_2026_padrao(serie) ==
    IF serie \notin DOMAIN TUITION
    THEN precos_de_parcela13(TUITION["1ª e 2ª Série EM Vestibular"].parcela13)
    ELSE precos_de_parcela13(TUITION[serie].parcela13)

precos_2026(serie) ==
    IF serie \notin DOMAIN TUITION THEN PrecoZero
    ELSE precos_de_parcela13(TUITION[serie].parcela13)

(***************************************************************************)
(* calcula_bolsa on drawn inputs.                                          *)
(***************************************************************************)
\* no value returned yet
NaoChamado == [chamado |-> FALSE, pct |-> 0]

Retorno(p) == [chamado |-> TRUE, pct |-> p]

AcertosInputs == (0 - MaxAbaixo)..(24 + MaxAcima)
SerieInputs == DOMAIN TUITION \cup {NoneSerie, SerieDesconhecida}

InitBolsa ==
    /\ acertos \in AcertosInputs
    /\ serie_bolsa \in SerieInputs
    /\ pct_bolsa = NaoChamado
    /\ prev_bolsa = [acertos |-> 0, pct |-> NaoChamado]

IdleBolsa ==
    /\ acertos = 0
    /\ serie_bolsa = NoneSerie
    /\ pct_bolsa = NaoChamado
    /\ prev_bolsa = [acertos |-> 0, pct |-> NaoChamado]

\* pct = calcula_bolsa(total, serie)
CallCalculaBolsa ==
    /\ ~pct_bolsa.chamado
    /\ pct_bolsa' = Retorno(calcula_bolsa(acertos, serie_bolsa))
    /\ UNCHANGED <<acertos, serie_bolsa, prev_bolsa>>
    /\ UNCHANGED naoBolsa

\* the caller moves on to another total of the same program
OutroTotal ==
    /\ pct_bolsa.chamado
    /\ prev_bolsa' = [acertos |-> acertos, pct |-> pct_bolsa]
    /\ acertos' \in AcertosInputs
    /\ pct_bolsa' = NaoChamado
    /\ UNCHANGED serie_bolsa
    /\ UNCHANGED naoBolsa

NextBolsa == CallCalculaBolsa \/ OutroTotal

(***************************************************************************)
(* precos_2026 on drawn inputs.                                            *)
(***************************************************************************)
\* base installments fed to the chain: those of the table, 1000.00, and the
\* absent (0) and negative cases
Parcela13Inputs ==
    {TUITION[s].parcela13 : s \in DOMAIN TUITION} \cup {100000, 0, -100}

SemPreco == [chamado |-> FALSE, primeira_cota |-> 0, parcela_mensal |-> 0, anuidade |-> 0]

Chamado(p) ==
    [chamado |-> TRUE, primeira_cota |-> p.primeira_cota,
     parcela_mensal |-> p.parcela_mensal, anuidade |-> p.anuidade]

InitPrecos ==
    /\ serie_precos \in SerieInputs
    /\ parcela13_in \in Parcela13Inputs
    /\ precos_out = SemPreco
    /\ chain_out = SemPreco
    /\ precos_calls = 0

IdlePrecos ==
    /\ serie_precos = NoneSerie
    /\ parcela13_in = 0
    /\ precos_out = SemPreco
    /\ chain_out = SemPreco
    /\ precos_calls = 0

CallPrecos2026 ==
    /\ precos_calls < MaxPrecosCalls
    /\ precos_out' = Chamado(precos_2026(serie_precos))
    /\ precos_calls' = precos_calls + 1
    /\ UNCHANGED <<serie_precos, parcela13_in, chain_out>>
    /\ UNCHANGED naoPrecos

CallFormulaChain ==
    /\ precos_calls < MaxPrecosCalls
    /\ chain_out' = Chamado(precos_de_parcela13(parcela13_in))
    /\ precos_calls' = precos_calls + 1
    /\ UNCHANGED <<serie_precos, parcela13_in, precos_out>>
    /\ UNCHANGED naoPrecos

NextPrecos == CallPrecos2026 \/ CallFormulaChain

(***************************************************************************)
(* The letter form (aba_carta).  Every interaction reruns the script, so   *)
(* each action ends with the values the run computes (lines 441-450).      *)
(***************************************************************************)
\* TURMA_DE_INTERESSE_MAP in its insertion order
TURMAS ==
    << <<"1ª série IME ITA Jr", "1ª e 2ª Série EM Militar">>,
       <<"1ª série do EM - Militar", "1ª e 2ª Série EM Militar">>,
       <<"1ª série do EM - Pré-Vestibular", "1ª e 2ª Série EM Vestibular">>,
       <<"1º ano do EF1", "1º ao 5º Ano">>,
       <<"2ª série IME ITA Jr", "1ª e 2ª Série EM Militar">>,
       <<"2ª série do EM - Militar", "1ª e 2ª Série EM Militar">>,
       <<"2ª série do EM - Pré-Vestibular", "1ª e 2ª Série EM Vestibular">>,
       <<"2º ano do EF1", "1º ao 5º Ano">>,
       <<"3ª série do EM - AFA EN EFOMM", "3ª Série (PV/PM)">>,
       <<"3ª série do EM - ESA", "3ª Série (PV/PM)">>,
       <<"3ª série do EM - EsPCEx", "3ª Série (PV/PM)">>,
       <<"3ª série do EM - IME ITA", "3ª Série (PV/PM)">>,
       <<"3ª série do EM - Medicina", "3ª Série EM Medicina">>,
       <<"3ª série do EM - Pré-Vestibular", "3ª Série (PV/PM)">>,
       <<"3º ano do EF1", "1º ao 5º Ano">>,
       <<"4º ano do EF1", "1º ao 5º Ano">>,
       <<"5º ano do EF1", "1º ao 5º Ano">>,
       <<"6º ano do EF2", "6º ao 8º Ano">>,
       <<"7º ano do EF2", "6º ao 8º Ano">>,
       <<"8º ano do EF2", "6º ao 8º Ano">>,
       <<"9º ano do EF2 - Militar", "9º Ano EF II Militar">>,
       <<"9º ano do EF2 - Vestibular", "9º Ano EF II Vestibular">>,
       <<"Pré-Militar AFA EN EFOMM", "AFA/EN/EFOMM">>,
       <<"Pré-Militar CN EPCAr", "CN/EPCAr">>,
       <<"Pré-Militar ESA", "ESA">>,
       <<"Pré-Militar EsPCEx", "EsPCEx">>,
       <<"Pré-Militar IME ITA", "IME/ITA">>,
       <<"Pré-Vestibular", "Pré-Vestibular">>,
       <<"Pré-Vestibular - Medicina", "Medicina (Pré)">> >>

opcoes_turma_interesse == {TURMAS[i][1] : i \in DOMAIN TURMAS}

TURMA_DE_INTERESSE_MAP ==
    [t \in opcoes_turma_interesse |->
        TURMAS[CHOOSE i \in DOMAIN TURMAS : TURMAS[i][1] = t][2]]

\* {v: k for k, v in reversed(items)}: the last assignment, made by the first
\* item of the original order, is the one that stays
SERIE_TO_TURMA_MAP ==
    [s \in {TURMAS[i][2] : i \in DOMAIN TURMAS} |->
        TURMAS[CHOOSE i \in DOMAIN TURMAS :
                  /\ TURMAS[i][2] = s
                  /\ \A j \in DOMAIN TURMAS : TURMAS[j][2] = s => i <= j][1]]

\* SERIE_TO_TURMA_MAP.get(serie, opcoes_turma_interesse[0])
SerieToTurma(serie) ==
    IF serie \in DOMAIN SERIE_TO_TURMA_MAP THEN SERIE_TO_TURMA_MAP[serie]
    ELSE TURMAS[1][1]

serie_modalidade_pre == "1ª e 2ª Série EM Vestibular"

SemCandidato == "<sem candidato>"

\* values of the column 'Turma de Interesse - Geral' of the Hubspot sheet
HubspotSeries == {"1º ao 5º Ano", "6º ao 8º Ano", "1º ano do EF1", SerieDesconhecida}

max_por_materia(serie) == IF serie = EF1 THEN 5 ELSE 12

\* a discount applied as x * pct instead of x * (1 - pct)
Desconta_invertido(x, p) == x * p

\* x * (1 - pct), in hundredths of a centavo
Desconta(x, p) == x * (100 - p)

\* lines 441-450 of a run, on the session state the run ends with
Recalcula ==
    /\ total' = c_mat' + c_port'
    /\ pct' = calcula_bolsa(total', c_serie')
    /\ precos' = precos_2026(c_serie')
    /\ val_ano' = Desconta(precos'.anuidade, pct')
    /\ val_parcela_mensal' = Desconta(precos'.parcela_mensal, pct')
    /\ val_primeira_cota' = Desconta(precos'.primeira_cota, pct')

InitCarta ==
    /\ c_turma = SerieToTurma(serie_modalidade_pre)
    /\ c_serie = serie_modalidade_pre
    /\ c_mat = 0
    /\ c_port = 0
    /\ candidato = SemCandidato
    /\ total = 0
    /\ pct = calcula_bolsa(0, serie_modalidade_pre)
    /\ precos = precos_2026(serie_modalidade_pre)
    /\ val_ano = Desconta(precos_2026(serie_modalidade_pre).anuidade,
                          calcula_bolsa(0, serie_modalidade_pre))
    /\ val_parcela_mensal = Desconta(precos_2026(serie_modalidade_pre).parcela_mensal,
                                     calcula_bolsa(0, serie_modalidade_pre))
    /\ val_primeira_cota = Desconta(precos_2026(serie_modalidade_pre).primeira_cota,
                                    calcula_bolsa(0, serie_modalidade_pre))

IdleCarta ==
    /\ c_turma = SerieToTurma(serie_modalidade_pre)
    /\ c_serie = serie_modalidade_pre
    /\ c_mat = 0
    /\ c_port = 0
    /\ candidato = SemCandidato
    /\ total = 0
    /\ pct = 0
    /\ precos = PrecoZero
    /\ val_ano = 0
    /\ val_parcela_mensal = 0
    /\ val_primeira_cota = 0

\* number inputs that keep the stored counts when max_value changes
Contagens_mantem(novaSerie) == UNCHANGED <<c_mat, c_port>>

\* The two number inputs after a run in which the program becomes novaSerie.
\* max_value is part of the identity of a number input: when
\* max_por_materia changes, the run builds new widgets, which start from
\* the default 0, and the stored counts of the old ones are dropped.
Contagens(novaSerie) ==
    IF max_por_materia(novaSerie) # max_por_materia(c_serie)
    THEN c_mat' = 0 /\ c_port' = 0
    ELSE UNCHANGED <<c_mat, c_port>>

\* the user picks a class; on_change runs update_serie_from_turma, and the
\* rerun of lines 402-409 puts a loaded candidate's values back
SelecionarTurma(t) ==
    /\ t # c_turma
    /\ IF candidato # SemCandidato
       THEN /\ c_turma' = SerieToTurma(candidato)
            /\ c_serie' = candidato
       ELSE /\ c_turma' = t
            /\ c_serie' = TURMA_DE_INTERESSE_MAP[t]
    /\ Contagens(c_serie')
    /\ UNCHANGED candidato
    /\ Recalcula
    /\ UNCHANGED naoCarta

\* modo 'Carregar dados de um candidato' with a candidate selected
CarregarCandidato(s) ==
    /\ s # candidato
    /\ candidato' = s
    /\ c_turma' = SerieToTurma(s)
    /\ c_serie' = s
    /\ Contagens(s)
    /\ Recalcula
    /\ UNCHANGED naoCarta

\* back to 'Preencher manualmente': the session state stays as it is
PreencherManualmente ==
    /\ candidato # SemCandidato
    /\ candidato' = SemCandidato
    /\ UNCHANGED <<c_turma, c_serie, c_mat, c_port>>
    /\ Recalcula
    /\ UNCHANGED naoCarta

AcertosMatematica(n) ==
    /\ n \in 0..max_por_materia(c_serie)
    /\ n # c_mat
    /\ c_mat' = n
    /\ UNCHANGED <<c_turma, c_serie, c_port, candidato>>
    /\ Recalcula
    /\ UNCHANGED naoCarta

AcertosPortugues(n) ==
    /\ n \in 0..max_por_materia(c_serie)
    /\ n # c_port
    /\ c_port' = n
    /\ UNCHANGED <<c_turma, c_serie, c_mat, candidato>>
    /\ Recalcula
    /\ UNCHANGED naoCarta

NextCarta ==
    \/ \E t \in opcoes_turma_interesse : SelecionarTurma(t)
    \/ \E s \in HubspotSeries : CarregarCandidato(s)
    \/ PreencherManualmente
    \/ \E n \in 0..12 : AcertosMatematica(n)
    \/ \E n \in 0..12 : AcertosPortugues(n)

(***************************************************************************)
(* batch_update_cells.  A title and a range are sequences of tokens; the   *)
(* apostrophe and the exclamation mark are tokens of their own.            *)
(***************************************************************************)
Apostrofo == "'"
Exclamacao == "!"

\* title.replace("'", "''")
RECURSIVE Escapa(_)
Escapa(t) ==
    IF t = <<>> THEN <<>>
    ELSE (IF Head(t) = Apostrofo THEN <<Apostrofo, Apostrofo>> ELSE <<Head(t)>>)
         \o Escapa(Tail(t))

\* "!" in rng
TemAba(rng) == \E i \in DOMAIN rng : rng[i] = Exclamacao

\* the qualifier put in front without escaping the title
FixRange_sem_escape(title, rng) ==
    IF TemAba(rng) THEN rng
    ELSE <<Apostrofo>> \o title \o <<Apostrofo, Exclamacao>> \o rng

\* lines 94-95: rng = f"'{sheet_title_safe}'!{rng}" when it has no "!"
FixRange(title, rng) ==
    IF TemAba(rng) THEN rng
    ELSE <<Apostrofo>> \o Escapa(title) \o <<Apostrofo, Exclamacao>> \o rng

\* a loop that stops at the first update without a range instead of
\* skipping it
RECURSIVE Fixed_break(_, _)
Fixed_break(title, updates) ==
    IF updates = <<>> THEN <<>>
    ELSE LET u == Head(updates) IN
         IF u.range = <<>> THEN <<>>
         ELSE <<[range |-> FixRange(title, u.range), values |-> u.values]>>
              \o Fixed_break(title, Tail(updates))

\* fixed.append placed after the loop: only the last update that has a range
\* is kept
Fixed_so_ultimo(title, updates) ==
    LET c == SelectSeq(updates, LAMBDA u : u.range # <<>>)
    IN IF c = <<>> THEN <<>>
       ELSE <<[range |-> FixRange(title, c[Len(c)].range), values |-> c[Len(c)].values]>>

\* lines 88-96: the list fixed
RECURSIVE Fixed(_, _)
Fixed(title, updates) ==
    IF updates = <<>> THEN <<>>
    ELSE LET u == Head(updates)
             rest == Fixed(title, Tail(updates))
         IN IF u.range = <<>> THEN rest
            ELSE <<[range |-> FixRange(title, u.range), values |-> u.values]>> \o rest

\* the requests one call makes: none for an empty list, else one body
batch_update_cells(title, updates) ==
    IF updates = <<>> THEN <<>>
    ELSE <<[valueInputOption |-> "USER_ENTERED", data |-> Fixed(title, updates)]>>

RECURSIVE SeqsAte(_, _)
\* the sequences over S of length at most n
SeqsAte(S, n) ==
    IF n = 0 THEN {<<>>}
    ELSE LET menores == SeqsAte(S, n - 1)
         IN menores \cup {Append(q, x) : q \in menores, x \in S}

Titles == SeqsAte({"R", Apostrofo}, MaxTitleLen) \ {<<>>}

\* the updates lists are drawn from: every kind of range, and two values
Updates ==
    { [range |-> <<>>, values |-> "x"],
      [range |-> <<"A1">>, values |-> "x"],
      [range |-> <<"A1">>, values |-> "y"],
      [range |-> <<"S", Exclamacao, "A1">>, values |-> "y"],
      [range |-> <<Apostrofo, "S", Apostrofo, Exclamacao, "A1">>, values |-> "x"] }

UpdatesInputs == SeqsAte(Updates, MaxUpdates)

InitBatch ==
    /\ ws_title \in Titles
    /\ updates_in = <<>>
    /\ requests = <<>>
    /\ batch_calls = 0

IdleBatch ==
    /\ ws_title = <<"R">>
    /\ updates_in = <<>>
    /\ requests = <<>>
    /\ batch_calls = 0

CallBatchUpdateCells(updates) ==
    /\ batch_calls < MaxBatchCalls
    /\ batch_calls' = batch_calls + 1
    /\ updates_in' = updates
    /\ requests' = requests \o batch_update_cells(ws_title, updates)
    /\ UNCHANGED ws_title
    /\ UNCHANGED naoBatch

NextBatch == \E updates \in UpdatesInputs : CallBatchUpdateCells(updates)

(***************************************************************************)
(* calcula_valor_minimo on drawn inputs, and the negotiation simulator     *)
(* (aba_negociacao).                                                       *)
(***************************************************************************)
\* dict.get(k, 0)
Get(map, k) == IF k \in DOMAIN map THEN map[k] ELSE 0

\* sorted(UNIDADES_MAP.keys()): the campus names with the prefix removed
UNIDADES_LIMPAS ==
    <<"BANGU", "CAMPO GRANDE", "DUQUE DE CAXIAS", "MADUREIRA", "NOVA IGUACU",
      "RETIRO DOS ARTISTAS", "ROCHA MIRANDA", "SÃO JOÃO DE MERITI", "TAQUARA", "TIJUCA">>

\* the discount ceilings, per ten thousand
DESCONTOS_MAXIMOS_POR_UNIDADE ==
    [u \in {UNIDADES_LIMPAS[i] : i \in DOMAIN UNIDADES_LIMPAS} |->
        CASE u = "RETIRO DOS ARTISTAS" -> 5000
          [] u = "CAMPO GRANDE" -> 6320
          [] u = "ROCHA MIRANDA" -> 6606
          [] u = "TAQUARA" -> 6755
          [] u = "NOVA IGUACU" -> 6700
          [] u = "DUQUE DE CAXIAS" -> 6823
          [] u = "BANGU" -> 6806
          [] u = "MADUREIRA" -> 7032
          [] u = "TIJUCA" -> 6800
          [] u = "SÃO JOÃO DE MERITI" -> 7197]

\* a campus name that has no ceiling
UnidadeDesconhecida == "CENTRO"

\* a * b for a below ten million and b up to ten thousand, as thousands and rest
Vezes(a, b) ==
    [mil |-> (a \div 1000) * b + ((a % 1000) * b) \div 1000,
     resto |-> ((a % 1000) * b) % 1000]

Zero == [mil |-> 0, resto |-> 0]

\* x < y
Menor(x, y) == x.mil < y.mil \/ (x.mil = y.mil /\ x.resto < y.resto)

\* the guard written with 'or': a campus without a ceiling pays the full price
calcula_valor_minimo_ou(unidade, serie_modalidade) ==
    LET desconto_maximo == Get(DESCONTOS_MAXIMOS_POR_UNIDADE, unidade)
        valor_anuidade_integral == precos_2026(serie_modalidade).anuidade
    IN IF valor_anuidade_integral > 0 \/ desconto_maximo > 0
       THEN Vezes(valor_anuidade_integral, 10000 - desconto_maximo)
       ELSE Zero

\* the value returned, in 1/120000 of a centavo
calcula_valor_minimo(unidade, serie_modalidade) ==
    LET desconto_maximo == Get(DESCONTOS_MAXIMOS_POR_UNIDADE, unidade)
        valor_anuidade_integral == precos_2026(serie_modalidade).anuidade
    IN IF valor_anuidade_integral > 0 /\ desconto_maximo > 0
       THEN Vezes(valor_anuidade_integral, 10000 - desconto_maximo)
       ELSE Zero

UnidadeInputs ==
    {UNIDADES_LIMPAS[i] : i \in DOMAIN UNIDADES_LIMPAS} \cup {UnidadeDesconhecida}

MinNaoChamado == [chamado |-> FALSE, valor |-> Zero]

InitMin ==
    /\ min_unid \in UnidadeInputs
    /\ min_serie \in SerieInputs
    /\ min_out = MinNaoChamado

IdleMin ==
    /\ min_unid = UnidadeDesconhecida
    /\ min_serie = NoneSerie
    /\ min_out = MinNaoChamado

CallCalculaValorMinimo ==
    /\ ~min_out.chamado
    /\ min_out' = [chamado |-> TRUE, valor |-> calcula_valor_minimo(min_unid, min_serie)]
    /\ UNCHANGED <<min_unid, min_serie>>
    /\ UNCHANGED naoMin

NextMin == CallCalculaValorMinimo

\* list(TUITION.keys()), in the order the table is written
SeriesNeg ==
    <<"1ª e 2ª Série EM Militar", "1ª e 2ª Série EM Vestibular", "1º ao 5º Ano",
      "3ª Série (PV/PM)", "3ª Série EM Medicina", "6º ao 8º Ano",
      "9º Ano EF II Militar", "9º Ano EF II Vestibular", "AFA/EN/EFOMM",
      "CN/EPCAr", "ESA", "EsPCEx", "IME/ITA", "Medicina (Pré)", "Pré-Vestibular">>

ModoBolsa == "Bolsa (%)"
ModoValor == "Valor da Parcela (R$)"

\* values typed in 'Valor desejado da parcela (R$)', in centavos; the
\* second is the widget's default
ValoresNeg == {50000, 150000, 300000}

\* a value in hundredths of a centavo, in 1/120000 of a centavo (x * 1200)
EmCentoEVinteMil(x) == [mil |-> (x * 12) \div 10, resto |-> ((x * 12) % 10) * 100]

\* lines 533-558: the values one run of the simulator shows.  A widget of
\* the mode that is not shown is dropped and starts again from its default.
Simula(unid, serie, modo, bolsa, valor) ==
    /\ n_unid' = unid
    /\ n_serie' = serie
    /\ modo_sim' = modo
    /\ valor_minimo' = calcula_valor_minimo(unid, serie)
    /\ IF modo = ModoBolsa
       THEN /\ bolsa_sim' = bolsa
            /\ valor_neg' = 150000
            /\ valor_resultante' = precos_2026(serie).parcela_mensal * (100 - bolsa)
            /\ aviso' = Menor(EmCentoEVinteMil(valor_resultante'), valor_minimo')
       ELSE /\ bolsa_sim' = 30
            /\ valor_neg' = valor
            /\ valor_resultante' = 0
            /\ aviso' = Menor([mil |-> valor * 120, resto |-> 0], valor_minimo')

InitNeg ==
    /\ n_unid = UNIDADES_LIMPAS[1]
    /\ n_serie = SeriesNeg[1]
    /\ modo_sim = ModoBolsa
    /\ bolsa_sim = 30
    /\ valor_neg = 150000
    /\ valor_minimo = calcula_valor_minimo(n_unid, n_serie)
    /\ valor_resultante = precos_2026(n_serie).parcela_mensal * (100 - bolsa_sim)
    /\ aviso = Menor(EmCentoEVinteMil(valor_resultante), valor_minimo)

IdleNeg == InitNeg

SelecionarUnidade(u) ==
    /\ u # n_unid
    /\ Simula(u, n_serie, modo_sim, bolsa_sim, valor_neg)
    /\ UNCHANGED naoNeg

SelecionarSerieNeg(s) ==
    /\ s # n_serie
    /\ Simula(n_unid, s, modo_sim, bolsa_sim, valor_neg)
    /\ UNCHANGED naoNeg

TrocarModo ==
    /\ Simula(n_unid, n_serie, IF modo_sim = ModoBolsa THEN ModoValor ELSE ModoBolsa,
              30, 150000)
    /\ UNCHANGED naoNeg

MoverBolsa(b) ==
    /\ modo_sim = ModoBolsa
    /\ b # bolsa_sim
    /\ Simula(n_unid, n_serie, modo_sim, b, valor_neg)
    /\ UNCHANGED naoNeg

DigitarValor(v) ==
    /\ modo_sim = ModoValor
    /\ v # valor_neg
    /\ Simula(n_unid, n_serie, modo_sim, bolsa_sim, v)
    /\ UNCHANGED naoNeg

NextNeg ==
    \/ \E i \in DOMAIN UNIDADES_LIMPAS : SelecionarUnidade(UNIDADES_LIMPAS[i])
    \/ \E i \in DOMAIN SeriesNeg : SelecionarSerieNeg(SeriesNeg[i])
    \/ TrocarModo
    \/ \E b \in 0..100 : MoverBolsa(b)
    \/ \E v \in ValoresNeg : DigitarValor(v)

(***************************************************************************)
(* The sheet 'Resultados_Bolsao', the cached snapshot and the follow-up    *)
(* form (aba_formulario).  The sheet is shared: besides the application,   *)
(* people edit it in the spreadsheet itself.  Of the columns the form      *)
(* writes, the model keeps a text one and a currency one.  Three           *)
(* specifications run the same handlers in three environments: Spec (one   *)
(* session, a store that answers), SpecDois (two sessions) and             *)
(* SpecAmbiente (any header row, a store that may not answer during a run, *)
(* a renderer that may fail).                                              *)
(***************************************************************************)
TITULO == <<"Resultados_Bolsao">>

CABECALHO == <<"REGISTRO_ID", "Nome do Aluno", "Escola de Origem", "Valor Negociado">>

\* header rows the sheet may have been given in the spreadsheet: a column of
\* the form missing, the identifier column missing, a blank cell between
\* two columns, no header at all
SemEscola == <<"REGISTRO_ID", "Nome do Aluno", "Valor Negociado">>
SemRegistroId == <<"Nome do Aluno", "Escola de Origem", "Valor Negociado">>
ComBranco == <<"REGISTRO_ID", "", "Nome do Aluno", "Escola de Origem", "Valor Negociado">>
SemCabecalho == <<>>
Cabecalhos == {CABECALHO, SemEscola, SemRegistroId, ComBranco, SemCabecalho}

\* the columns the follow-up form asks the snapshot for; of the thirteen of
\* the program the model keeps those of CABECALHO
base_cols == {"REGISTRO_ID", "Nome do Aluno", "Escola de Origem", "Valor Negociado"}

\* names typed in 'Nome completo do candidato', already stripped and in
\* title case; the empty name is the field left blank
Nomes == {"Ana"}
Textos == {"a", "b"}
Valores == {150000}

\* the sessions open on the application; they share the process and with it
\* every cache
Usuarios == {"u1", "u2"}

\* {h: i + 1 for i, h in enumerate(headers) if h}: a repeated name keeps its
\* last column
header_map(headers) ==
    [h \in {headers[i] : i \in DOMAIN headers} \ {""} |->
        CHOOSE i \in DOMAIN headers :
            /\ headers[i] = h
            /\ \A j \in DOMAIN headers : headers[j] = h => j <= i]

\* new_uuid(): the n-th identifier, different from all the others
IdDe(n) == "r" \o ToString(n)

IDs == {IdDe(n) : n \in 1..MaxRegistros}

Pad2(n) == IF n < 10 THEN "0" \o ToString(n) ELSE ToString(n)
Pad3(n) == IF n < 10 THEN "00" \o ToString(n)
           ELSE IF n < 100 THEN "0" \o ToString(n) ELSE ToString(n)

RECURSIVE Milhares(_)
\* f"{v:,}" with the separators swapped: groups of three digits and "."
Milhares(n) ==
    IF n < 1000 THEN ToString(n)
    ELSE Milhares(n \div 1000) \o "." \o Pad3(n % 1000)

\* format_currency of an amount in centavos
format_currency(c) == "R$ " \o Milhares(c \div 100) \o "," \o Pad2(c % 100)

Letras == <<"A", "B", "C", "D", "E", "F">>

\* gspread.utils.rowcol_to_a1
rowcol_to_a1(row, col) == Letras[col] \o ToString(row)

\* dict(zip(keys, row)) of get_all_records: a repeated key keeps its last cell
Registro(row) ==
    [h \in {header[i] : i \in DOMAIN header} |->
        row[CHOOSE i \in DOMAIN header :
                /\ header[i] = h
                /\ \A j \in DOMAIN header : header[j] = h => j <= i]]

\* line 126; enumerate counts from 0 and the header is row 1.  An identifier
\* that is absent maps to 0, which the form treats like None.
id_to_rownum_de(rows) ==
    [id \in IDs |->
        IF \E i \in DOMAIN rows : rows[i]["REGISTRO_ID"] = id
        THEN 1 + CHOOSE i \in DOMAIN rows :
                     /\ rows[i]["REGISTRO_ID"] = id
                     /\ \A j \in DOMAIN rows : rows[j]["REGISTRO_ID"] = id => j <= i
        ELSE 0]

\* a header test that finds nothing missing
missing_nada(columns_needed) == {}

\* line 118: the columns asked for that the header does not have
missing(columns_needed) == columns_needed \ DOMAIN header_map(header)

\* load_resultados_snapshot on the sheet as it is now, when no column is
\* missing and the store answers
load_resultados_snapshot(sh) ==
    LET rows == [i \in DOMAIN sh |-> Registro(sh[i])]
    IN [valido |-> TRUE, rows |-> rows, id_to_rownum |-> id_to_rownum_de(rows)]

CacheVazio == [valido |-> FALSE, rows |-> <<>>, id_to_rownum |-> [id \in IDs |-> 0]]

\* the snapshot a run of the form works with: the cached one unless the
\* cache was cleared or has expired
Snapshot(limpar, sh) ==
    IF limpar \/ ~cache.valido THEN load_resultados_snapshot(sh) ELSE cache

\* the identifiers offered in 'Selecione o Registro do Bolsão'
Options(snap) ==
    {snap.rows[i]["REGISTRO_ID"] : i \in {j \in DOMAIN snap.rows :
        snap.rows[j]["REGISTRO_ID"] # "" /\ snap.rows[j]["Nome do Aluno"] # ""}}

\* the selection a run ends with: an option that is gone falls back to none
Selecionado(snap, rid) == IF rid \in Options(snap) THEN rid ELSE ""

LinhaVazia == [c \in DOMAIN header |-> ""]

\* the rows of sh, with blank rows added up to row n
RECURSIVE AteLinha(_, _)
AteLinha(sh, n) == IF Len(sh) >= n THEN sh ELSE AteLinha(Append(sh, LinhaVazia), n)

RECURSIVE Desescapa(_)
\* a quoted sheet name read back: each pair of apostrophes is one
Desescapa(t) ==
    IF t = <<>> THEN <<>>
    ELSE IF Len(t) >= 2 /\ t[1] = Apostrofo /\ t[2] = Apostrofo
         THEN <<Apostrofo>> \o Desescapa(Tail(Tail(t)))
         ELSE <<Head(t)>> \o Desescapa(Tail(t))

\* the sheet a qualified range names
AbaDe(rng) ==
    LET k == CHOOSE i \in DOMAIN rng :
                 rng[i] = Exclamacao /\ \A j \in DOMAIN rng : rng[j] = Exclamacao => j <= i
        q == SubSeq(rng, 1, k - 1)
    IN IF Len(q) >= 2 /\ q[1] = Apostrofo /\ q[Len(q)] = Apostrofo
       THEN Desescapa(SubSeq(q, 2, Len(q) - 1))
       ELSE q

\* the row and column an A1 reference names
CelulaDe(a1) ==
    CHOOSE rc \in (1..(MaxRegistros + 2)) \X DOMAIN header :
        rowcol_to_a1(rc[1], rc[2]) = a1

\* the spreadsheet applying one item of a values_batch_update body
AplicaItem(sh, item) ==
    LET rc == CelulaDe(item.range[Len(item.range)])
        cheia == AteLinha(sh, rc[1] - 1)
    IN IF AbaDe(item.range) # TITULO THEN sh
       ELSE [cheia EXCEPT ![rc[1] - 1][rc[2]] = item.values]

RECURSIVE AplicaData(_, _)
AplicaData(sh, data) ==
    IF data = <<>> THEN sh ELSE AplicaData(AplicaItem(sh, Head(data)), Tail(data))

\* ws.spreadsheet.values_batch_update for each request made
RECURSIVE AplicaRequests(_, _)
AplicaRequests(sh, reqs) ==
    IF reqs = <<>> THEN sh
    ELSE AplicaRequests(AplicaData(sh, Head(reqs).data), Tail(reqs))

\* lines 703-708: one update per column of updates_dict that the header has
RECURSIVE updates_to_batch(_, _)
updates_to_batch(rownum, updates_dict) ==
    IF updates_dict = <<>> THEN <<>>
    ELSE LET col_idx == Get(header_map(header), Head(updates_dict)[1])
             rest == updates_to_batch(rownum, Tail(updates_dict))
         IN IF col_idx = 0 THEN rest
            ELSE <<[range |-> <<rowcol_to_a1(rownum, col_idx)>>,
                    values |-> Head(updates_dict)[2]]>> \o rest

\* row_data_map.get(col_name, ""): of the fields of a new record the model
\* keeps the identifier and the name
row_data_map(registro_id, aluno, col_name) ==
    IF col_name = "REGISTRO_ID" THEN registro_id
    ELSE IF col_name = "Nome do Aluno" THEN aluno
    ELSE ""

\* sorted(hmap_res, key=hmap_res.get): the names of the header map in the
\* order of their columns
RECURSIVE header_list(_, _)
header_list(hmap, i) ==
    IF i > Len(header) THEN <<>>
    ELSE IF header[i] \in DOMAIN hmap /\ hmap[header[i]] = i
         THEN <<header[i]>> \o header_list(hmap, i + 1)
         ELSE header_list(hmap, i + 1)

\* nova_linha of lines 510-511
nova_linha(hl, registro_id, aluno) ==
    [k \in DOMAIN hl |-> row_data_map(registro_id, aluno, hl[k])]

\* ws.append_row: the values go to the columns A, B, ... of a new last row
append_row(sh, linha) ==
    Append(sh, [c \in DOMAIN header |-> IF c \in DOMAIN linha THEN linha[c] ELSE ""])

\* what gera_pdf_html meets: all well, carta.html missing, or a failure of
\* the conversion
Renders == {"ok", "sem_template", "falha_conversao"}

Msg(tipo) == [tipo |-> tipo, colunas |-> {}]

\* st.error of line 596: str(e) of the RuntimeError of line 120
MsgFaltam(cols) == [tipo |-> "Faltam colunas em 'Resultados_Bolsao'", colunas |-> cols]

\* a renderer that hands out a page saying what went wrong
gera_pdf_html_aviso(render) ==
    CASE render = "ok" -> [pdf |-> "bytes", erros |-> {}]
      [] render = "sem_template" ->
            [pdf |-> "bytes",
             erros |-> {Msg("Arquivo 'carta.html' ou 'style.css' não encontrado.")}]
      [] OTHER -> [pdf |-> "bytes", erros |-> {Msg("Erro ao gerar PDF")}]

\* gera_pdf_html: the bytes of the document, or b"" and a message
gera_pdf_html(render) ==
    CASE render = "ok" -> [pdf |-> "bytes", erros |-> {}]
      [] render = "sem_template" ->
            [pdf |-> "vazio",
             erros |-> {Msg("Arquivo 'carta.html' ou 'style.css' não encontrado.")}]
      [] OTHER -> [pdf |-> "vazio", erros |-> {Msg("Erro ao gerar PDF")}]

NadaEscrito == [ativo |-> FALSE, reg_id |-> "", rownum |-> 0, escola |-> "",
                valor |-> "", relido |-> FALSE]

\* nothing shown yet: the page was not run
SemUI == [rodou |-> FALSE, gerar |-> FALSE, render |-> "nao", pdf |-> "nao",
          erros |-> {}, download |-> FALSE, excecao |-> FALSE]

\* what a run shows when the letter tab had no button pressed
SemCarta == [rodou |-> TRUE, gerar |-> FALSE, render |-> "nao", pdf |-> "nao",
             erros |-> {}, download |-> FALSE, excecao |-> FALSE]

InitStore ==
    /\ header = CABECALHO
    /\ client_ok = TRUE
    /\ ws_cached = FALSE
    /\ sheet = <<>>
    /\ cache = CacheVazio
    /\ selecao = [u \in Usuarios |-> ""]
    /\ gerados = 0
    /\ externos = 0
    /\ escrito = NadaEscrito
    /\ ui = SemUI

IdleStore == InitStore

\* a sheet whose header is any of Cabecalhos, and credentials that may be
\* refused (get_gspread_client then returns None for good)
InitStoreAmbiente ==
    /\ header \in Cabecalhos
    /\ client_ok \in BOOLEAN
    /\ ws_cached = FALSE
    /\ sheet = <<>>
    /\ cache = CacheVazio
    /\ selecao = [u \in Usuarios |-> ""]
    /\ gerados = 0
    /\ externos = 0
    /\ escrito = NadaEscrito
    /\ ui = SemUI

\* Lines 563-689 and 725-726 of a run: the follow-up form up to its
\* widgets, after the letter tab showed carta.  sh is the sheet as the run
\* finds it, ok whether the store answers during the run, limpar whether
\* 'Recarregar lista' was pressed and rid the record picked in the
\* selectbox.  A selectbox that a run does not show loses its value.
Formulario(u, limpar, rid, sh, ok, carta) ==
    IF ~client_ok
    THEN /\ UNCHANGED <<cache, ws_cached, escrito>>
         /\ selecao' = [selecao EXCEPT ![u] = ""]
         /\ ui' = carta
    ELSE IF ~ws_cached /\ ~ok
    THEN \* get_ws or header_map raises, line 725 catches
         /\ UNCHANGED <<cache, ws_cached, escrito>>
         /\ selecao' = [selecao EXCEPT ![u] = ""]
         /\ ui' = [carta EXCEPT !.erros = @ \cup {Msg("Ocorreu um erro ao carregar o formulário")}]
    ELSE IF ~(limpar \/ ~cache.valido)
    THEN \* the cached snapshot serves the run
         /\ ws_cached' = TRUE
         /\ UNCHANGED <<cache, escrito>>
         /\ selecao' = [selecao EXCEPT ![u] = Selecionado(cache, rid)]
         /\ ui' = carta
    ELSE IF missing(base_cols) # {}
    THEN \* the RuntimeError of line 120, caught at line 595
         /\ ws_cached' = TRUE
         /\ cache' = CacheVazio
         /\ UNCHANGED escrito
         /\ selecao' = [selecao EXCEPT ![u] = ""]
         /\ ui' = [carta EXCEPT !.erros = @ \cup {MsgFaltam(missing(base_cols))}]
    ELSE IF ~ok
    THEN \* get_all_records raises, line 725 catches
         /\ ws_cached' = TRUE
         /\ cache' = CacheVazio
         /\ UNCHANGED escrito
         /\ selecao' = [selecao EXCEPT ![u] = ""]
         /\ ui' = [carta EXCEPT !.erros = @ \cup {Msg("Ocorreu um erro ao carregar o formulário")}]
    ELSE /\ ws_cached' = TRUE
         /\ cache' = load_resultados_snapshot(sh)
         /\ escrito' = [escrito EXCEPT !.relido = TRUE]
         /\ selecao' = [selecao EXCEPT ![u] = Selecionado(cache', rid)]
         /\ ui' = carta

\* any rerun of the script that presses no button
Ver(u, ok) ==
    /\ Formulario(u, FALSE, selecao[u], sheet, ok, SemCarta)
    /\ UNCHANGED <<header, client_ok, sheet, gerados, externos>>
    /\ UNCHANGED naoStore

\* 'Recarregar lista (atualizar snapshot)'
Recarregar(u, ok) ==
    /\ ui.rodou
    /\ client_ok
    /\ ws_cached
    /\ Formulario(u, TRUE, selecao[u], sheet, ok, SemCarta)
    /\ UNCHANGED <<header, client_ok, sheet, gerados, externos>>
    /\ UNCHANGED naoStore

\* the user picks one of the records the form shows
Selecionar(u, rid, ok) ==
    /\ rid \in Options(cache)
    /\ rid # selecao[u]
    /\ Formulario(u, FALSE, rid, sheet, ok, SemCarta)
    /\ UNCHANGED <<header, client_ok, sheet, gerados, externos>>
    /\ UNCHANGED naoStore

\* the st.cache_data entry is older than ttl = 300 s
ExpirarCache ==
    /\ cache.valido
    /\ cache' = [cache EXCEPT !.valido = FALSE]
    /\ UNCHANGED <<header, client_ok, ws_cached, sheet, selecao, gerados, externos,
                   escrito, ui>>
    /\ UNCHANGED naoStore

\* 'Salvar Formulário' with the values typed in the form.  The button is
\* shown for a selected record; a run that cannot show the form again (the
\* snapshot expired and cannot be loaded) ends like any other run.
Salvar(u, escola_origem, valor_neg_num, ok) ==
    /\ selecao[u] # ""
    /\ LET recarrega == ~cache.valido
           carregado == ~recarrega \/ (ok /\ missing(base_cols) = {})
           snapshot == IF carregado THEN Snapshot(FALSE, sheet) ELSE CacheVazio
           reg_id == Selecionado(snapshot, selecao[u])
           rownum == IF reg_id = "" THEN 0 ELSE snapshot.id_to_rownum[reg_id]
           updates_dict == << <<"Escola de Origem", escola_origem>>,
                              <<"Valor Negociado", format_currency(valor_neg_num)>> >>
           batch == updates_to_batch(rownum, updates_dict)
       IN IF ~(carregado /\ rownum # 0 /\ batch # <<>>)
          THEN /\ Formulario(u, FALSE, selecao[u], sheet, ok, SemCarta)
               /\ UNCHANGED sheet
          ELSE IF ~ok
          THEN \* values_batch_update raises, line 725 catches: nothing is written
               /\ UNCHANGED <<sheet, cache, ws_cached, escrito, selecao>>
               /\ ui' = [SemCarta EXCEPT
                            !.erros = {Msg("Ocorreu um erro ao carregar o formulário")}]
          ELSE /\ sheet' = AplicaRequests(sheet, batch_update_cells(TITULO, batch))
               /\ cache' = snapshot
               /\ ws_cached' = TRUE
               /\ selecao' = [selecao EXCEPT ![u] = reg_id]
               /\ escrito' = [ativo |-> TRUE, reg_id |-> reg_id, rownum |-> rownum,
                              escola |-> escola_origem,
                              valor |-> format_currency(valor_neg_num),
                              relido |-> FALSE]
               /\ ui' = SemCarta
    /\ UNCHANGED <<header, client_ok, gerados, externos>>
    /\ UNCHANGED naoStore

\* 'Gerar Carta PDF' (lines 452-520) for the name typed, then the form's
\* part of the same run.  render is what gera_pdf_html meets.
GerarCarta(u, aluno, ok, render) ==
    /\ ui.rodou
    /\ gerados < MaxRegistros
    /\ LET clicado == [SemCarta EXCEPT !.gerar = TRUE]
           hmap_res == header_map(header)
           doc == gera_pdf_html(render)
           linha == nova_linha(header_list(hmap_res, 1), IdDe(gerados + 1), aluno)
       IN IF aluno = ""
          THEN /\ Formulario(u, FALSE, selecao[u], sheet, ok,
                    [clicado EXCEPT !.erros = {Msg("Por favor, preencha o nome do candidato.")}])
               /\ UNCHANGED <<sheet, gerados>>
          ELSE IF ~client_ok
          THEN /\ Formulario(u, FALSE, selecao[u], sheet, ok,
                    [clicado EXCEPT !.erros = {Msg("Não foi possível gerar a carta pois a conexão com a planilha falhou.")}])
               /\ UNCHANGED <<sheet, gerados>>
          ELSE IF ~ws_cached /\ ~ok
          THEN \* get_ws or header_map raises at lines 458-459, outside any try:
               \* the run ends there
               /\ ui' = [clicado EXCEPT !.excecao = TRUE]
               /\ UNCHANGED <<sheet, gerados, cache, ws_cached, selecao, escrito>>
          ELSE IF DOMAIN hmap_res = {}
          THEN /\ Formulario(u, FALSE, selecao[u], sheet, ok,
                    [clicado EXCEPT !.erros = {Msg("Não foi possível acessar a planilha 'Resultados_Bolsao'. Verifique o nome e as permissões.")}])
               /\ UNCHANGED <<sheet, gerados>>
          ELSE IF "REGISTRO_ID" \notin DOMAIN hmap_res
          THEN /\ Formulario(u, FALSE, selecao[u], sheet, ok,
                    [clicado EXCEPT !.erros = {Msg("A planilha 'Resultados_Bolsao' precisa de uma coluna chamada 'REGISTRO_ID'.")}])
               /\ UNCHANGED <<sheet, gerados>>
          ELSE IF doc.pdf = "vazio"
          THEN /\ Formulario(u, FALSE, selecao[u], sheet, ok,
                    [clicado EXCEPT !.render = render, !.pdf = doc.pdf,
                                    !.erros = doc.erros])
               /\ UNCHANGED <<sheet, gerados>>
          ELSE IF ~ok
          THEN \* append_row raises, line 515 catches; the download is still offered
               /\ Formulario(u, FALSE, selecao[u], sheet, ok,
                    [clicado EXCEPT !.render = render, !.pdf = doc.pdf,
                                    !.erros = doc.erros \cup {Msg("Falha ao salvar na planilha")},
                                    !.download = TRUE])
               /\ UNCHANGED <<sheet, gerados>>
          ELSE /\ gerados' = gerados + 1
               /\ sheet' = append_row(sheet, linha)
               /\ Formulario(u, FALSE, selecao[u], sheet', ok,
                    [clicado EXCEPT !.render = render, !.pdf = doc.pdf,
                                    !.erros = doc.erros, !.download = TRUE])
    /\ UNCHANGED <<header, client_ok, externos>>
    /\ UNCHANGED naoStore

\* somebody deletes row i + 1 of the sheet in the spreadsheet itself
ExcluirLinhaNaPlanilha(i) ==
    /\ externos < MaxExternos
    /\ i \in DOMAIN sheet
    /\ externos' = externos + 1
    /\ sheet' = SubSeq(sheet, 1, i - 1) \o SubSeq(sheet, i + 1, Len(sheet))
    /\ escrito' = [escrito EXCEPT !.ativo = FALSE]
    /\ UNCHANGED <<header, client_ok, ws_cached, cache, selecao, gerados, ui>>
    /\ UNCHANGED naoStore

\* one session, a store that answers and a renderer that works
Next ==
    \/ Ver("u1", TRUE)
    \/ Recarregar("u1", TRUE)
    \/ \E rid \in IDs : Selecionar("u1", rid, TRUE)
    \/ ExpirarCache
    \/ \E e \in Textos, v \in Valores : Salvar("u1", e, v, TRUE)
    \/ \E aluno \in Nomes \cup {""} : GerarCarta("u1", aluno, TRUE, "ok")
    \/ \E i \in 1..(MaxRegistros + 1) : ExcluirLinhaNaPlanilha(i)

\* two sessions on the same sheet
NextDois ==
    \/ \E u \in Usuarios : Ver(u, TRUE)
    \/ \E u \in Usuarios : Recarregar(u, TRUE)
    \/ \E u \in Usuarios, rid \in IDs : Selecionar(u, rid, TRUE)
    \/ ExpirarCache
    \/ \E u \in Usuarios, e \in Textos, v \in Valores : Salvar(u, e, v, TRUE)
    \/ \E u \in Usuarios, aluno \in Nomes : GerarCarta(u, aluno, TRUE, "ok")
    \/ \E i \in 1..(MaxRegistros + 1) : ExcluirLinhaNaPlanilha(i)

\* one session; the store may fail to answer during any run and the
\* renderer may fail
NextAmbiente ==
    \/ \E ok \in BOOLEAN : Ver("u1", ok)
    \/ \E ok \in BOOLEAN : Recarregar("u1", ok)
    \/ \E rid \in IDs, ok \in BOOLEAN : Selecionar("u1", rid, ok)
    \/ ExpirarCache
    \/ \E e \in Textos, v \in Valores, ok \in BOOLEAN : Salvar("u1", e, v, ok)
    \/ \E aluno \in Nomes \cup {""}, ok \in BOOLEAN, render \in Renders :
           GerarCarta("u1", aluno, ok, render)

(***************************************************************************)
(* find_row_by_id and the snapshot's identifier index on drawn contents of *)
(* the sheet.  People fill the sheet in the spreadsheet as well, so a row  *)
(* may have an empty REGISTRO_ID and two rows may carry the same one.      *)
(***************************************************************************)
RECURSIVE SemBrancosFinais(_)
\* a column as the store returns it: the empty cells at its end are left out
SemBrancosFinais(c) ==
    IF c # <<>> /\ c[Len(c)] = ""
    THEN SemBrancosFinais(SubSeq(c, 1, Len(c) - 1))
    ELSE c

\* ws.col_values(col): the cells of the column from row 1 down
col_values(sh, col) ==
    SemBrancosFinais(<<header[col]>> \o [i \in 1..Len(sh) |-> sh[i][col]])

\* find_row_by_id: the first row, counted from 2, whose cell equals the
\* target; None (0) when there is none or when the store does not answer
find_row_by_id(sh, id_col_idx, target, ok) ==
    IF ~ok THEN 0
    ELSE LET todos == col_values(sh, id_col_idx)
             col == IF todos = <<>> THEN <<>> ELSE Tail(todos)
         IN IF \E i \in DOMAIN col : col[i] = target
            THEN 1 + CHOOSE i \in DOMAIN col :
                         /\ col[i] = target
                         /\ \A j \in DOMAIN col : col[j] = target => i <= j
            ELSE 0

NaoBuscado == [chamado |-> FALSE, respondeu |-> FALSE, rownum |-> 0]

IdleBusca ==
    /\ target_id = ""
    /\ find_out = NaoBuscado
    /\ index_out = NaoBuscado

CallFindRowById(ok) ==
    /\ ~find_out.chamado
    /\ find_out' =
         [chamado |-> TRUE, respondeu |-> ok,
          rownum |-> find_row_by_id(sheet, header_map(header)["REGISTRO_ID"],
                                    target_id, ok)]
    /\ UNCHANGED <<target_id, index_out>>
    /\ UNCHANGED <<calcVars, precosVars, cartaVars, batchVars, minVars, negVars, storeVars>>

\* line 633 on a snapshot loaded from the sheet as it is; a store that does
\* not answer makes load_resultados_snapshot raise
ConsultarIndice(ok) ==
    /\ ~index_out.chamado
    /\ index_out' =
         [chamado |-> TRUE, respondeu |-> ok,
          rownum |-> IF ok
                     THEN Get(load_resultados_snapshot(sheet).id_to_rownum, target_id)
                     ELSE 0]
    /\ UNCHANGED <<target_id, find_out>>
    /\ UNCHANGED <<calcVars, precosVars, cartaVars, batchVars, minVars, negVars, storeVars>>

NextBusca ==
    \/ \E ok \in BOOLEAN : CallFindRowById(ok)
    \/ \E ok \in BOOLEAN : ConsultarIndice(ok)

(***************************************************************************)
(* Specifications.                                                         *)
(***************************************************************************)
InitSpecBolsa ==
    InitBolsa /\ IdlePrecos /\ IdleCarta /\ IdleBatch /\ IdleMin /\ IdleNeg /\ IdleStore
    /\ IdleBusca
SpecBolsa == InitSpecBolsa /\ [][NextBolsa]_vars

InitSpecPrecos ==
    IdleBolsa /\ InitPrecos /\ IdleCarta /\ IdleBatch /\ IdleMin /\ IdleNeg /\ IdleStore
    /\ IdleBusca
SpecPrecos == InitSpecPrecos /\ [][NextPrecos]_vars

InitSpecCarta ==
    IdleBolsa /\ IdlePrecos /\ InitCarta /\ IdleBatch /\ IdleMin /\ IdleNeg /\ IdleStore
    /\ IdleBusca
SpecCarta == InitSpecCarta /\ [][NextCarta]_vars

Init ==
    IdleBolsa /\ IdlePrecos /\ IdleCarta /\ IdleBatch /\ IdleMin /\ IdleNeg /\ InitStore
    /\ IdleBusca
Spec == Init /\ [][Next]_vars

InitSpecBatch ==
    IdleBolsa /\ IdlePrecos /\ IdleCarta /\ InitBatch /\ IdleMin /\ IdleNeg /\ IdleStore
    /\ IdleBusca
SpecBatch == InitSpecBatch /\ [][NextBatch]_vars

InitSpecMinimo ==
    IdleBolsa /\ IdlePrecos /\ IdleCarta /\ IdleBatch /\ InitMin /\ IdleNeg /\ IdleStore
    /\ IdleBusca
SpecMinimo == InitSpecMinimo /\ [][NextMin]_vars

InitSpecNegociacao ==
    IdleBolsa /\ IdlePrecos /\ IdleCarta /\ IdleBatch /\ IdleMin /\ InitNeg /\ IdleStore
    /\ IdleBusca
SpecNegociacao == InitSpecNegociacao /\ [][NextNeg]_vars

InitSpecDois ==
    IdleBolsa /\ IdlePrecos /\ IdleCarta /\ IdleBatch /\ IdleMin /\ IdleNeg /\ InitStore
    /\ IdleBusca
SpecDois == InitSpecDois /\ [][NextDois]_vars

InitSpecAmbiente ==
    /\ IdleBolsa /\ IdlePrecos /\ IdleCarta /\ IdleBatch /\ IdleMin /\ IdleNeg
    /\ InitStoreAmbiente /\ IdleBusca
SpecAmbiente == InitSpecAmbiente /\ [][NextAmbiente]_vars

\* the sheet under the full header, holding any rows whose REGISTRO_ID cell
\* is empty or an identifier, and any identifier to look up
InitSpecBusca ==
    /\ IdleBolsa /\ IdlePrecos /\ IdleCarta /\ IdleBatch /\ IdleMin /\ IdleNeg
    /\ header = CABECALHO
    /\ client_ok = TRUE
    /\ ws_cached = FALSE
    /\ sheet \in SeqsAte({<<id, "Ana", "", "">> : id \in IDs \cup {""}}, MaxLinhas)
    /\ cache = CacheVazio
    /\ selecao = [u \in Usuarios |-> ""]
    /\ gerados = 0
    /\ externos = 0
    /\ escrito = NadaEscrito
    /\ ui = SemUI
    /\ target_id \in IDs \cup {""}
    /\ find_out = NaoBuscado
    /\ index_out = NaoBuscado
SpecBusca == InitSpecBusca /\ [][NextBusca]_vars

(***************************************************************************)
(* Properties.                                                             *)
(***************************************************************************)
Geral(serie) == serie # EF1

\* C5: on the general table calcula_bolsa is non-decreasing in the total
\* over 0..24 (a call on a total not below that of the previous call returns
\* a fraction not below the previous one), and it is 0.30 at 0, 0.50 at 12
\* and 1.00 at 24.
C5_GeneralTableMonotone ==
    (Geral(serie_bolsa) /\ pct_bolsa.chamado /\ acertos \in 0..24) =>
        /\ (/\ prev_bolsa.pct.chamado
            /\ prev_bolsa.acertos \in 0..24
            /\ prev_bolsa.acertos <= acertos) => prev_bolsa.pct.pct <= pct_bolsa.pct
        /\ acertos = 0 => pct_bolsa.pct = 30
        /\ acertos = 12 => pct_bolsa.pct = 50
        /\ acertos = 24 => pct_bolsa.pct = 100

C5_Witness ==
    /\ Geral(serie_bolsa)
    /\ acertos = 12
    /\ pct_bolsa = Retorno(50)
    /\ prev_bolsa.pct.chamado
    /\ prev_bolsa.acertos = 11

\* C6: for the special program '1º ao 5º Ano' calcula_bolsa yields 0.0 for 0
\* correct answers, 0.30 for 1 to 3, 0.50 for 4 to 5, 0.60 for 6 to 8 and
\* 0.65 for 9 to 10, and no other value.
C6_SpecialProgramSteps ==
    (serie_bolsa = EF1 /\ pct_bolsa.chamado) =>
        /\ pct_bolsa.pct \in {0, 30, 50, 60, 65}
        /\ acertos = 0 => pct_bolsa.pct = 0
        /\ acertos \in 1..3 => pct_bolsa.pct = 30
        /\ acertos \in 4..5 => pct_bolsa.pct = 50
        /\ acertos \in 6..8 => pct_bolsa.pct = 60
        /\ acertos \in 9..10 => pct_bolsa.pct = 65

C6_Witness == serie_bolsa = EF1 /\ acertos = 8 /\ pct_bolsa = Retorno(60)

\* the fraction the tables give for a total already inside the valid range
ValorNaFaixa(t, serie) ==
    IF serie = EF1
    THEN CASE t = 0 -> 0
           [] t \in 1..3 -> 30
           [] t \in 4..5 -> 50
           [] t \in 6..8 -> 60
           [] t \in 9..10 -> 65
    ELSE BOLSA_MAP[t]

\* C7: for every integer total and every program name, unknown names and
\* None included, calcula_bolsa returns a fraction in [0,1] equal to the value
\* at the total clamped into [0,10] for the special program and into [0,24]
\* for any other program, which uses the general table.
C7_ClampedTotalAnyProgram ==
    pct_bolsa.chamado =>
        LET hi == IF serie_bolsa = EF1 THEN 10 ELSE 24
            t == IF acertos < 0 THEN 0 ELSE IF acertos > hi THEN hi ELSE acertos
        IN /\ pct_bolsa.pct \in 0..100
           /\ pct_bolsa.pct = ValorNaFaixa(t, serie_bolsa)

C7_Witness == serie_bolsa = EF1 /\ acertos < 0 /\ pct_bolsa = Retorno(0)

TudoZero(p) == p.primeira_cota = 0 /\ p.parcela_mensal = 0 /\ p.anuidade = 0

\* the result of precos_2026 for an unpriced program or base is all zero
ZeroSemPreco ==
    /\ (precos_out.chamado /\ serie_precos \notin DOMAIN TUITION) => TudoZero(precos_out)
    /\ (chain_out.chamado /\ parcela13_in <= 0) => TudoZero(chain_out)

\* a call changes only its result, and a repeated call repeats the result
PassoPuro ==
    /\ (precos_out' # precos_out) =>
          UNCHANGED <<serie_precos, parcela13_in, chain_out, calcVars, cartaVars, batchVars,
                      minVars, negVars, storeVars, buscaVars>>
    /\ (precos_out.chamado /\ precos_out'.chamado) => (precos_out' = precos_out)

\* C8: precos_2026 is pure (a call changes nothing but its result, and a
\* second call on the same program returns the same breakdown); a program
\* that is not in the tuition table, or a base installment that is absent or
\* not positive, yields the all-zero breakdown.
C8_PrecosPureZeroWhenUnpriced == []ZeroSemPreco /\ [][PassoPuro]_vars

C8_Witness ==
    /\ precos_out.chamado
    /\ serie_precos = SerieDesconhecida
    /\ TudoZero(precos_out)
    /\ precos_calls >= 2

Abs(x) == IF x < 0 THEN -x ELSE x

\* q is n / d rounded to the nearest integer
Arredondado(q, n, d) == 2 * Abs(q * d - n) <= d

\* the breakdown p is the formula chain on the base installment b
SegueCadeia(p, b) ==
    /\ Arredondado(p.primeira_cota, b * 10, 11)
    /\ Arredondado(p.parcela_mensal, p.primeira_cota * 1093, 1000)
    /\ p.anuidade = p.primeira_cota + 12 * p.parcela_mensal

\* C9: for every priced program precos_2026 follows the chain
\* primeira_cota = round(base / 1.10), parcela_mensal = round(primeira_cota *
\* 1.093), anuidade = primeira_cota + 12 * parcela_mensal, each rounded to the
\* centavo; a base of 1000.00 gives 909.09, 993.64 and 12832.77.
C9_FormulaChain ==
    /\ (precos_out.chamado /\ serie_precos \in DOMAIN TUITION) =>
            SegueCadeia(precos_out, TUITION[serie_precos].parcela13)
    /\ (chain_out.chamado /\ parcela13_in > 0) => SegueCadeia(chain_out, parcela13_in)
    /\ (chain_out.chamado /\ parcela13_in = 100000) =>
            /\ chain_out.primeira_cota = 90909
            /\ chain_out.parcela_mensal = 99364
            /\ chain_out.anuidade = 1283277

C9_Witness ==
    /\ chain_out.chamado
    /\ parcela13_in = 100000
    /\ chain_out.anuidade = 1283277
    /\ precos_out.chamado
    /\ serie_precos \in DOMAIN TUITION

\* C10: the three values of the letter are the full-price values multiplied
\* by (1 - discount): with discount 0.0 they equal the full-price breakdown
\* and with discount 1.0 all three are zero.
C10_DiscountApplied ==
    /\ val_ano = precos.anuidade * (100 - pct)
    /\ val_parcela_mensal = precos.parcela_mensal * (100 - pct)
    /\ val_primeira_cota = precos.primeira_cota * (100 - pct)
    /\ pct = 0 =>
          /\ val_ano = 100 * precos.anuidade
          /\ val_parcela_mensal = 100 * precos.parcela_mensal
          /\ val_primeira_cota = 100 * precos.primeira_cota
    /\ pct = 100 => (val_ano = 0 /\ val_parcela_mensal = 0 /\ val_primeira_cota = 0)

C10_Witness == pct = 100 /\ total = 24 /\ precos.anuidade > 0 /\ val_ano = 0

\* the updates of a list that have a range, in their order
ComRange(updates) == SelectSeq(updates, LAMBDA u : u.range # <<>>)

NumApostrofos(t, n) == Cardinality({i \in 1..n : t[i] = Apostrofo})

\* e is t with every apostrophe doubled: the i-th token of t sits in e after
\* one extra token for each apostrophe before it, and an apostrophe is
\* followed by a second one
Dobrado(e, t) ==
    /\ Len(e) = Len(t) + NumApostrofos(t, Len(t))
    /\ \A i \in DOMAIN t :
          LET k == i + NumApostrofos(t, i - 1) IN
          /\ e[k] = t[i]
          /\ t[i] = Apostrofo => e[k + 1] = Apostrofo

\* sent is the range orig as batch_update_cells must send it for the title
RangeQualificado(sent, orig, title) ==
    IF TemAba(orig) THEN sent = orig
    ELSE LET n == Len(sent) - Len(orig) IN
         /\ n >= 3
         /\ SubSeq(sent, n + 1, Len(sent)) = orig
         /\ sent[1] = Apostrofo
         /\ sent[n - 1] = Apostrofo
         /\ sent[n] = Exclamacao
         /\ Dobrado(SubSeq(sent, 2, n - 2), title)

\* C3: every update without a sheet qualifier is sent with its range prefixed
\* by the worksheet's title in single quotes, its apostrophes doubled; an
\* update that has a qualifier is sent with its range unchanged; no update is
\* ever sent with an unqualified range.
C3_RangesQualified ==
    /\ \A r \in DOMAIN requests : \A i \in DOMAIN requests[r].data :
          TemAba(requests[r].data[i].range)
    /\ updates_in # <<>> =>
          LET data == requests[Len(requests)].data
              orig == ComRange(updates_in)
          IN /\ Len(data) = Len(orig)
             /\ \A i \in DOMAIN orig :
                   RangeQualificado(data[i].range, orig[i].range, ws_title)

C3_Witness ==
    /\ ws_title = <<"R", Apostrofo>>
    /\ Len(updates_in) = 2
    /\ updates_in[1].range = <<"A1">>
    /\ updates_in[2].range = <<"S", Exclamacao, "A1">>
    /\ requests[Len(requests)].data[1].range =
          <<Apostrofo, "R", Apostrofo, Apostrofo, Apostrofo, Exclamacao, "A1">>
    /\ requests[Len(requests)].data[2].range = <<"S", Exclamacao, "A1">>

\* a call with an empty list sends nothing; any other call sends one body
\* whose data are the updates that have a range, in their order
UmPedidoPorChamada ==
    (batch_calls' = batch_calls + 1) =>
        IF updates_in' = <<>> THEN requests' = requests
        ELSE /\ Len(requests') = Len(requests) + 1
             /\ SubSeq(requests', 1, Len(requests)) = requests
             /\ LET data == requests'[Len(requests')].data
                    orig == ComRange(updates_in')
                IN /\ Len(data) = Len(orig)
                   /\ \A i \in DOMAIN orig :
                         /\ data[i].values = orig[i].values
                         /\ SubSeq(data[i].range,
                                   Len(data[i].range) - Len(orig[i].range) + 1,
                                   Len(data[i].range)) = orig[i].range

\* C4: batch_update_cells issues exactly one write request per call with a
\* non-empty list of updates, carrying all the updates that have a non-empty
\* range, and no request at all for an empty list.
C4_OneRequestPerCall == [][UmPedidoPorChamada]_vars

C4_Witness ==
    /\ batch_calls = 1
    /\ Len(requests) = 1
    /\ Len(updates_in) = 2
    /\ updates_in[1].range = <<>>
    /\ updates_in[2].range # <<>>
    /\ Len(requests[1].data) = 1

\* C1: the cells written by 'Salvar Formulário' belong to the row that holds
\* the selected REGISTRO_ID in the sheet at the time of the write, also when
\* the rows of the sheet changed after the snapshot was cached.
C1_SaveWritesRowOfSelectedId ==
    escrito.ativo =>
        /\ escrito.rownum - 1 \in DOMAIN sheet
        /\ sheet[escrito.rownum - 1][1] = escrito.reg_id

C11_ValorMinimo ==
    min_out.chamado =>
        LET anuidade == precos_2026(min_serie).anuidade
        IN /\ (min_unid \notin DOMAIN DESCONTOS_MAXIMOS_POR_UNIDADE) => (min_out.valor = Zero)
           /\ (min_serie \notin DOMAIN TUITION) => (min_out.valor = Zero)
           /\ (/\ min_unid \in DOMAIN DESCONTOS_MAXIMOS_POR_UNIDADE
               /\ min_serie \in DOMAIN TUITION) =>
                  /\ anuidade > 0
                  /\ min_out.valor =
                       Vezes(anuidade, 10000 - DESCONTOS_MAXIMOS_POR_UNIDADE[min_unid])

C11_Witness ==
    /\ min_out.chamado
    /\ min_unid = UnidadeDesconhecida
    /\ min_serie \in DOMAIN TUITION
    /\ min_out.valor = Zero

\* C19: in the simulator's percentage mode, for a priced program, a
\* percentage that does not exceed the campus's ceiling gives no
\* below-minimum warning, and a percentage above the ceiling gives it.
C19_CeilingDecidesWarning ==
    (modo_sim = ModoBolsa /\ n_serie \in DOMAIN TUITION) =>
        /\ (bolsa_sim * 100 <= DESCONTOS_MAXIMOS_POR_UNIDADE[n_unid]) => ~aviso
        /\ (bolsa_sim * 100 > DESCONTOS_MAXIMOS_POR_UNIDADE[n_unid]) => aviso

\* C16: in every state of the letter form each of the two counts is a
\* non-negative integer no greater than its program's maximum (at most 10 for
\* the special program, 12 otherwise), and their total is within 0..24, and
\* within 0..10 when the program is '1º ao 5º Ano', also after the class
\* changes between a general and the special program.
C16_CountsBounded ==
    /\ c_mat \in 0..(IF c_serie = EF1 THEN 10 ELSE 12)
    /\ c_port \in 0..(IF c_serie = EF1 THEN 10 ELSE 12)
    /\ total = c_mat + c_port
    /\ total \in 0..24
    /\ (c_serie = EF1) => (total \in 0..10)

C16_Witness ==
    /\ c_serie = EF1
    /\ c_mat = 5
    /\ c_port = 5
    /\ total = 10

\* C18: in every state of the letter form the program used for the discount
\* and the prices (c_serie) is a key of the tuition table and is the program
\* of the class selected (TURMA_DE_INTERESSE_MAP[c_turma]), also after a
\* candidate was loaded from the Hubspot data.
C18_SerieMatchesTurma ==
    /\ c_serie \in DOMAIN TUITION
    /\ c_turma \in DOMAIN TURMA_DE_INTERESSE_MAP
    /\ c_serie = TURMA_DE_INTERESSE_MAP[c_turma]

\* the last run pressed 'Gerar Carta PDF' and the renderer failed
RenderFalhou == ui.render \in {"sem_template", "falha_conversao"}

C12_Estado ==
    /\ (ui.render = "sem_template") =>
          Msg("Arquivo 'carta.html' ou 'style.css' não encontrado.") \in ui.erros
    /\ (ui.render = "falha_conversao") => Msg("Erro ao gerar PDF") \in ui.erros
    /\ RenderFalhou => (ui.pdf = "vazio" /\ ~ui.download /\ ~ui.excecao)
    /\ ui.download => (ui.pdf = "bytes")

C12_Passo ==
    /\ (ui'.render \in {"sem_template", "falha_conversao"}) => (sheet' = sheet)
    /\ (Len(sheet') > Len(sheet)) =>
          /\ ui'.pdf = "bytes"
          /\ Len(sheet') = Len(sheet) + 1
          /\ SubSeq(sheet', 1, Len(sheet)) = sheet

\* C12: when carta.html is missing or the conversion fails, gera_pdf_html
\* shows the error and returns an empty result without raising, and then no
\* row is appended and no download is offered; a row is appended only in a run
\* that produced a non-empty document, and at most one per 'Gerar Carta PDF'.
C12_RenderThenPersist == []C12_Estado /\ [][C12_Passo]_vars

C12_Witness ==
    /\ ui.gerar
    /\ ui.render = "falha_conversao"
    /\ ui.pdf = "vazio"
    /\ ~ui.download
    /\ Len(sheet) = 1

\* the columns of the form that no cell of the header row names
Ausentes == base_cols \ {header[i] : i \in DOMAIN header}

\* C13: with a column of the follow-up form missing from the header, every
\* run that has the header shows the error naming the missing columns, offers
\* no record, writes nothing and lets no exception escape; and with no
\* REGISTRO_ID in the header 'Gerar Carta PDF' shows an error and appends
\* nothing.
C13_MissingColumnReported ==
    /\ (Ausentes # {}) =>
          /\ ~cache.valido
          /\ Options(cache) = {}
          /\ \A u \in Usuarios : selecao[u] = ""
          /\ escrito = NadaEscrito
          /\ ws_cached => (MsgFaltam(Ausentes) \in ui.erros /\ ~ui.excecao)
    /\ ("REGISTRO_ID" \in Ausentes) =>
          /\ sheet = <<>>
          /\ ~ui.download
          /\ (/\ ws_cached
              /\ ui.gerar
              /\ Msg("Por favor, preencha o nome do candidato.") \notin ui.erros) =>
                 \E m \in ui.erros :
                     m.tipo \in {"A planilha 'Resultados_Bolsao' precisa de uma coluna chamada 'REGISTRO_ID'.",
                                 "Não foi possível acessar a planilha 'Resultados_Bolsao'. Verifique o nome e as permissões."}

C13_Witness ==
    /\ header = SemEscola
    /\ ws_cached
    /\ MsgFaltam({"Escola de Origem"}) \in ui.erros
    /\ sheet # <<>>

\* C14: no failure of the store during a user action leaves the action as an
\* uncaught exception; each is shown as a message.
C14_NoUncaughtStoreFailure == ~ui.excecao

\* C15: after saves of the same record by two sessions, every editable field
\* of the record holds the value of the later save: the row that holds the
\* REGISTRO_ID of the last save shows both values of that save.
C15_LastWriteWins ==
    (escrito.reg_id # "") =>
        \A i \in DOMAIN sheet :
            (sheet[i][1] = escrito.reg_id) =>
                /\ sheet[i][3] = escrito.escola
                /\ sheet[i][4] = escrito.valor

\* a step that changes the sheet and is neither a letter nor an outside edit
PassoSalvar == sheet' # sheet /\ gerados' = gerados /\ externos' = externos

C17_Passo ==
    /\ PassoSalvar =>
          /\ Len(sheet') = Len(sheet)
          /\ \A i \in DOMAIN sheet :
                /\ sheet'[i][1] = sheet[i][1]
                /\ sheet'[i][2] = sheet[i][2]
                /\ (sheet'[i] # sheet[i]) => (sheet[i][1] = escrito'.reg_id)
    /\ (gerados' # gerados) =>
          /\ Len(sheet') = Len(sheet) + 1
          /\ SubSeq(sheet', 1, Len(sheet)) = sheet
    /\ (Len(sheet') < Len(sheet)) => (externos' # externos)

\* C17: the application deletes no row; 'Salvar Formulário' changes only the
\* negotiation columns of the row of the selected record and leaves every
\* other row and the identifier and name columns as they were; 'Gerar Carta
\* PDF' only appends a row.
C17_OnlyFormMutates == [][C17_Passo]_vars

C20_Passo ==
    (gerados' # gerados) =>
        \A j \in DOMAIN header :
            LET valor == sheet'[Len(sheet')][j]
            IN IF header[j] = "REGISTRO_ID" THEN valor = IdDe(gerados')
               ELSE IF header[j] = "Nome do Aluno" THEN valor \in Nomes
               ELSE valor = ""

\* C20: each value of an appended row lands in the column whose header cell
\* has the field's name (the new REGISTRO_ID under REGISTRO_ID), and a column
\* with no field stays blank, whatever the header row is.
C20_AppendUnderOwnHeader == [][C20_Passo]_vars

\* C21: whatever the sheet holds, the row number the snapshot's index gives
\* for an identifier is the row number find_row_by_id finds for it (the
\* first row, counted from 2 below the header, whose identifier equals the
\* target as a string); an identifier that no row carries, and the empty
\* identifier, resolve to no row in both.
C21_IndexEqualsScan ==
    (/\ find_out.chamado /\ find_out.respondeu
     /\ index_out.chamado /\ index_out.respondeu) =>
        /\ index_out.rownum = find_out.rownum
        /\ (\/ target_id = ""
            \/ \A i \in DOMAIN sheet : sheet[i][1] # target_id) =>
               (index_out.rownum = 0 /\ find_out.rownum = 0)

====
